---- MODULE Spec2Model ----
(***************************************************************************)
(* Model of the FIGlet font importer (src/figlet_font_importer.py): the    *)
(* content-addressed import/deduplication run of main(): enumerate the     *)
(* source, index the destination by digest, then process the candidates    *)
(* one at a time (hash, plan, copy, update the index, append the audit     *)
(* record).                                                                *)
(*                                                                         *)
(* File names are sequences of characters, so that Path.stem/Path.suffix,  *)
(* str.lower() and the f"{stem}_v{n:02d}{ext}" formatting are computed.    *)
(* A file's bytes are a content id; xxhash_file maps equal bytes to equal  *)
(* digests and (as the program assumes) different bytes to different       *)
(* digests.  I/O failures (a file that cannot be hashed, a copy that       *)
(* raises, a write_jsonl that raises) are inputs chosen by the environment.*)
(* shutil.copy2 is taken as all-or-nothing: it either leaves the complete  *)
(* file at the destination or raises and leaves nothing.                   *)
(* write_jsonl likewise appends its whole line or raises with nothing       *)
(* appended.                                                               *)
(***************************************************************************)
EXTENDS Integers, Sequences, FiniteSets, TLC

(* ------------------------------ bounds -------------------------------- *)
\* number of distinct byte contents
NumContents == 2
\* most files initially in the source tree
MaxSrc == 2
\* most files initially in the destination tree
MaxDst == 2
\* most I/O failures the environment injects
MaxFaults == 1
\* most fonts in the two trees together when the interpreter lacks
\* Path.is_relative_to (every destination font is then a candidate too)
MaxIngest == 2

Contents == 1..NumContents

(* ------------------------------ names --------------------------------- *)
\* code points of the characters that occur in the modelled names
Ord(c) ==
  CASE c = "." -> 46 [] c = "/" -> 47
    [] c = "0" -> 48 [] c = "1" -> 49 [] c = "2" -> 50 [] c = "3" -> 51
    [] c = "4" -> 52 [] c = "5" -> 53 [] c = "6" -> 54 [] c = "7" -> 55
    [] c = "8" -> 56 [] c = "9" -> 57
    [] c = "B" -> 66 [] c = "F" -> 70 [] c = "L" -> 76
    [] c = "_" -> 95
    [] c = "a" -> 97 [] c = "b" -> 98 [] c = "f" -> 102 [] c = "l" -> 108
    [] c = "n" -> 110 [] c = "t" -> 116 [] c = "v" -> 118 [] c = "x" -> 120

\* str.lower() on one character
LowerChar(c) ==
  CASE c = "B" -> "b" [] c = "F" -> "f" [] c = "L" -> "l" [] OTHER -> c

\* str.lower()
Lower(s) == [k \in 1..Len(s) |-> LowerChar(s[k])]

\* s < t for Python strings: lexicographic by code point
StrLess(s, t) ==
  \E k \in 1..(Len(t)) :
     /\ \A j \in 1..(k-1) : j <= Len(s) /\ s[j] = t[j]
     /\ \/ k = Len(s) + 1
        \/ k <= Len(s) /\ Ord(s[k]) < Ord(t[k])

\* index of the last "." of a name, 0 when there is none
LastDot(s) ==
  LET dots == {k \in 1..Len(s) : s[k] = "."}
  IN IF dots = {} THEN 0 ELSE CHOOSE k \in dots : \A j \in dots : j <= k

\* pathlib: a name has a suffix when its last dot is neither first nor last
HasSuffix(s) == LastDot(s) > 1 /\ LastDot(s) < Len(s)

\* Path(name).suffix
PathSuffix(s) == IF HasSuffix(s) THEN SubSeq(s, LastDot(s), Len(s)) ELSE <<>>

\* Path(name).stem
PathStem(s) == IF HasSuffix(s) THEN SubSeq(s, 1, LastDot(s) - 1) ELSE s

DigitChar(d) ==
  CASE d = 0 -> "0" [] d = 1 -> "1" [] d = 2 -> "2" [] d = 3 -> "3"
    [] d = 4 -> "4" [] d = 5 -> "5" [] d = 6 -> "6" [] d = 7 -> "7"
    [] d = 8 -> "8" [] d = 9 -> "9"

RECURSIVE Decimal(_)
\* str(n) for n >= 0
Decimal(n) == IF n < 10 THEN <<DigitChar(n)>>
              ELSE Decimal(n \div 10) \o <<DigitChar(n % 10)>>

\* f"{n:02d}": decimal, zero-padded to at least two digits
Fmt02d(n) == IF n < 10 THEN <<"0">> \o Decimal(n) ELSE Decimal(n)

\* f"{stem}_v{n:02d}{ext}"
VersionedName(stem, n, ext) == stem \o <<"_", "v">> \o Fmt02d(n) \o ext

ExtFlf == <<".", "f", "l", "f">>
ExtTlf == <<".", "t", "l", "f">>
ALLOWED_EXTS == {ExtFlf, ExtTlf}

NameA == <<"a">> \o ExtFlf
NameB == <<"B", ".", "F", "L", "F">>
NameTxt == <<"n", ".", "t", "x", "t">>
NameA2 == VersionedName(<<"a">>, 2, ExtFlf)
NameA3 == VersionedName(<<"a">>, 3, ExtFlf)


(* ------------------------------ paths --------------------------------- *)
\* a path: the directory it lies in and its final component
P(d, n) == [dir |-> d, name |-> n]

NoPath == [dir |-> "", name |-> <<>>]

\* the directories of the source tree and of the destination tree
SrcDirs == {"in", "in/s1", "in/s2"}
DstDirs == {"out", "out/t"}

\* files the source tree may hold initially
SrcUniverse == {P("in", NameB), P("in/s1", NameA), P("in/s2", NameA)}
\* files the destination tree may hold initially
DstUniverse == {P("out", NameA), P("out", NameA2), P("out", NameA3), P("out/t", NameA)}

\* files that are no fonts, always there: one in the source, one in the
\* destination (with bytes no font has)
OtherFiles == (P("in", NameTxt) :> 0) @@ (P("out", NameTxt) :> 0)

\* every assignment of contents to at most max files of universe
Trees(universe, max) ==
  UNION {[S -> Contents] : S \in {T \in SUBSET universe : Cardinality(T) <= max}}

\* the fonts of both universes, in a fixed order
FontOrder ==
  <<P("in", NameB), P("in/s1", NameA), P("in/s2", NameA),
    P("out", NameA), P("out", NameA2), P("out", NameA3), P("out/t", NameA)>>

\* which content carries which number is immaterial (digests are only compared
\* for equality), so of the trees that differ by a renumbering of the contents
\* one is kept: along FontOrder a font holds a content seen before or the next
\* unused number
FirstNumbering(tree) ==
  \A k \in 1..Len(FontOrder) :
    FontOrder[k] \in DOMAIN tree =>
      \A c \in 1..(tree[FontOrder[k]] - 1) :
        \E j \in 1..(k - 1) : FontOrder[j] \in DOMAIN tree /\ tree[FontOrder[j]] = c

\* what --in names: the source root, a path that is no directory, or the
\* directory --out names
Roots == {"ok", "missing", "same"}

\* run configurations: --recursive, --out nested inside --in, --outsub given,
\* whether the interpreter has Path.is_relative_to (Python >= 3.9), and what
\* --in names (for roots main rejects only --outsub is left to vary)
Configs ==
  {c \in [recursive : BOOLEAN, nested : BOOLEAN, outsub : BOOLEAN, py39 : BOOLEAN,
          roots : Roots] :
     /\ c.nested => ~c.outsub
     /\ ~c.py39 => (c.nested /\ c.recursive)
     /\ c.roots # "ok" => (~c.recursive /\ ~c.nested /\ c.py39)}

\* environment failures for one candidate: xxhash_file raises, the copy raises,
\* and how many of the candidate's first write_jsonl calls raise
Modes ==
  {[hash |-> FALSE, copy |-> FALSE, log |-> 0],
   [hash |-> TRUE,  copy |-> FALSE, log |-> 0],
   [hash |-> FALSE, copy |-> TRUE,  log |-> 0],
   [hash |-> FALSE, copy |-> FALSE, log |-> 1],
   [hash |-> TRUE,  copy |-> FALSE, log |-> 1],
   [hash |-> FALSE, copy |-> TRUE,  log |-> 1],
   [hash |-> FALSE, copy |-> FALSE, log |-> 2]}
NoFault == [hash |-> FALSE, copy |-> FALSE, log |-> 0]

VARIABLES
  cfg,                    \* the run configuration (main's arguments, interpreter)
  fs,                     \* the file system: path -> content of every file
  dirs,                   \* the file system: the directories that exist
  pc,                     \* main's position: args, exit, start, list, index,
                          \* process, done, crashed
  in_files,               \* main: the sorted candidate list
  existing_files,         \* index_existing: the destination's fonts as listed
  existing_hash_to_path,  \* the digest index
  i,                      \* process_inputs: position in in_files
  copied, renamed, skipped, \* process_inputs: the counters
  log,                    \* the audit log file: the records appended so far
  trace,                  \* history: what happened to each candidate processed
  unhashed,               \* history: destination files index_existing failed to hash
  nfaults,                \* history: failures injected in this run
  fs0,                    \* history: the file system when the run started
  run,                    \* history: 1 for the first run, 2 for a second one
  prev,                   \* history: the first run's result, for a second run
  config,                 \* browser: the app's configuration (out_prefix)
  all_fonts,              \* browser: the fonts found by the scan, sorted
  filtered_fonts,         \* browser: the fonts the list shows
  counter,                \* browser: the number of the next save-current file
  last_render,            \* browser: the text of the last rendering
  asc,                    \* browser: the output directory, name -> text
  workers,                \* browser: the save-all workers
  saves                   \* history: every file the browser wrote

vars == <<cfg, fs, dirs, pc, in_files, existing_files, existing_hash_to_path, i,
          copied, renamed, skipped, log, trace, unhashed, nfaults, fs0, run, prev,
          config, all_fonts, filtered_fonts, counter, last_render, asc, workers, saves>>

\* the importer's variables and the browser's
importer == <<cfg, fs, dirs, pc, in_files, existing_files, existing_hash_to_path, i,
              copied, renamed, skipped, log, trace, unhashed, nfaults, fs0, run, prev>>
browser == <<config, all_fonts, filtered_fonts, counter, last_render, asc, workers, saves>>

\* most fonts below the browser's font directory
MaxFonts == 2
\* most save-all workers started in one session
MaxWorkers == 2
\* most save-current key presses in one session
MaxSaveCurrent == 1
\* most files in the browser's output directory before the session
MaxAsc == 1

\* a worker slot no save-all has used yet
NoWorker == [status |-> "idle", fonts |-> <<>>, k |-> 1, name_counts |-> <<>>, saved |-> 0]

\* the browser is not running
BrowserOff ==
  /\ config = [out_prefix |-> <<>>]
  /\ all_fonts = <<>>
  /\ filtered_fonts = <<>>
  /\ counter = 0
  /\ last_render = <<>>
  /\ asc = <<>>
  /\ workers = [w \in 1..MaxWorkers |-> NoWorker]
  /\ saves = <<>>

(* --------------------------- the file system -------------------------- *)
Files == DOMAIN fs

UnderOut(p) == p.dir \in DstDirs
\* lies under --in (the destination too when it is nested in the source)
UnderIn(p) == p.dir \in SrcDirs \/ (cfg.nested /\ UnderOut(p))
\* direct children of --in
DirectlyIn(p) == p.dir = "in"

\* main: in_dir, resolved
in_dir ==
  CASE cfg.roots = "missing" -> "gone" [] cfg.roots = "same" -> "out" [] OTHER -> "in"

\* main: out_dir, resolved
out_dir == "out"

\* a main that ignores --outsub
out_target_dir_NoOutsub == out_dir

\* main: out_target_dir
out_target_dir == IF cfg.outsub THEN "out/t" ELSE out_dir

\* the directories a tree of files implies, with the two roots that hold OtherFiles
DirsOf(files) == {"in", "out"} \cup {p.dir : p \in DOMAIN files}

\* (dir / name).exists()
Exists(dir, name) == P(dir, name) \in Files

\* _is_allowed_font, for a path that is a file
_is_allowed_font(p) == Lower(PathSuffix(p.name)) \in ALLOWED_EXTS

\* main: exclude_subtree ("" for None); the startswith fallback gives the same
\* answer for a destination nested in the source
exclude_subtree == IF cfg.recursive /\ cfg.nested THEN out_dir ELSE ""

\* iter_font_files: is p skipped as lying under exclude?  Without
\* Path.is_relative_to the test raises, the except clause passes, and p is kept.
Excluded(p, exclude) == exclude # "" /\ cfg.py39 /\ UnderOut(p)

\* an iter_font_files that never descends below the destination root
iter_font_files_Shallow(directory, recursive, exclude) ==
  {p \in Files :
     /\ IF directory = in_dir
        THEN (IF recursive THEN UnderIn(p) ELSE DirectlyIn(p))
        ELSE p.dir = "out"
     /\ ~Excluded(p, exclude)
     /\ _is_allowed_font(p)}

\* iter_font_files(directory, recursive, exclude): the files it yields
iter_font_files(directory, recursive, exclude) ==
  {p \in Files :
     /\ IF directory = in_dir
        THEN (IF recursive THEN UnderIn(p) ELSE DirectlyIn(p))
        ELSE UnderOut(p)
     /\ ~Excluded(p, exclude)
     /\ _is_allowed_font(p)}

RECURSIVE Orders(_)
\* the orders in which a directory walk may yield a set of files: all of them
Orders(S) ==
  IF S = {} THEN {<<>>}
  ELSE UNION {{<<p>> \o rest : rest \in Orders(S \ {p})} : p \in S}

\* main: the sort key, p.name.lower()
SortKey(p) == Lower(p.name)

\* insert p after every element whose key is not greater (a stable sort)
InsertStable(s, p) ==
  LET before == {k \in 1..Len(s) : ~StrLess(SortKey(p), SortKey(s[k]))}
      n == IF before = {} THEN 0 ELSE CHOOSE k \in before : \A j \in before : j <= k
  IN SubSeq(s, 1, n) \o <<p>> \o SubSeq(s, n + 1, Len(s))

RECURSIVE SortedFrom(_, _, _)
SortedFrom(acc, s, k) ==
  IF k > Len(s) THEN acc ELSE SortedFrom(InsertStable(acc, s[k]), s, k + 1)

\* sorted(files, key=lambda p: p.name.lower())
sorted(s) == SortedFrom(<<>>, s, 1)

\* xxhash_file of a readable file: the digest stands for the bytes
xxhash_file(p) == fs[p]


(* ------------------------------ planner ------------------------------- *)
RECURSIVE ScanVersions(_, _, _, _)
\* next_versioned_name's loop, from n on
ScanVersions(dir, stem, ext, n) ==
  IF ~Exists(dir, VersionedName(stem, n, ext))
  THEN VersionedName(stem, n, ext)
  ELSE ScanVersions(dir, stem, ext, n + 1)

\* a next_versioned_name that does not look at the directory
next_versioned_name_AlwaysV02(dir, stem, ext) == VersionedName(stem, 2, ext)

\* a next_versioned_name whose scan starts at 1
next_versioned_name_FromOne(dir, stem, ext) == ScanVersions(dir, stem, ext, 1)

\* next_versioned_name(out_target_dir, stem, ext)
next_versioned_name(dir, stem, ext) == ScanVersions(dir, stem, ext, 2)

\* a planner that treats an occupied name as a duplicate
plan_destination_SkipOnName(dir, src_name, src_hash, index) ==
  LET stem == PathStem(src_name)
      ext == IF PathSuffix(src_name) # <<>> THEN PathSuffix(src_name) ELSE ExtFlf
  IN IF src_hash \in DOMAIN index \/ Exists(dir, stem \o ext)
     THEN [dest |-> NoPath, action |-> "SKIP_DUPLICATE",
           name_conflict |-> FALSE, content_duplicate |-> TRUE]
     ELSE [dest |-> P(dir, stem \o ext), action |-> "COPY",
           name_conflict |-> FALSE, content_duplicate |-> FALSE]

\* a planner that never consults the index
plan_destination_NameOnly(dir, src_name, src_hash, index) ==
  LET stem == PathStem(src_name)
      ext == IF PathSuffix(src_name) # <<>> THEN PathSuffix(src_name) ELSE ExtFlf
  IN IF ~Exists(dir, stem \o ext)
     THEN [dest |-> P(dir, stem \o ext), action |-> "COPY",
           name_conflict |-> FALSE, content_duplicate |-> FALSE]
     ELSE [dest |-> P(dir, next_versioned_name(dir, stem, ext)), action |-> "COPY_RENAMED",
           name_conflict |-> TRUE, content_duplicate |-> FALSE]

\* a planner that counts a digest as present only when the indexed file lies in
\* the target directory
plan_destination_SameDirOnly(dir, src_name, src_hash, index) ==
  LET stem == PathStem(src_name)
      ext == IF PathSuffix(src_name) # <<>> THEN PathSuffix(src_name) ELSE ExtFlf
  IN IF src_hash \in DOMAIN index /\ index[src_hash].dir = dir
     THEN [dest |-> NoPath, action |-> "SKIP_DUPLICATE",
           name_conflict |-> FALSE, content_duplicate |-> TRUE]
     ELSE IF ~Exists(dir, stem \o ext)
     THEN [dest |-> P(dir, stem \o ext), action |-> "COPY",
           name_conflict |-> FALSE, content_duplicate |-> FALSE]
     ELSE [dest |-> P(dir, next_versioned_name(dir, stem, ext)), action |-> "COPY_RENAMED",
           name_conflict |-> TRUE, content_duplicate |-> FALSE]

\* a planner that looks at the name before it looks at the index
plan_destination_NameFirst(dir, src_name, src_hash, index) ==
  LET stem == PathStem(src_name)
      ext == IF PathSuffix(src_name) # <<>> THEN PathSuffix(src_name) ELSE ExtFlf
  IN IF Exists(dir, stem \o ext)
     THEN [dest |-> P(dir, next_versioned_name(dir, stem, ext)), action |-> "COPY_RENAMED",
           name_conflict |-> TRUE, content_duplicate |-> FALSE]
     ELSE IF src_hash \in DOMAIN index
     THEN [dest |-> NoPath, action |-> "SKIP_DUPLICATE",
           name_conflict |-> FALSE, content_duplicate |-> TRUE]
     ELSE [dest |-> P(dir, stem \o ext), action |-> "COPY",
           name_conflict |-> FALSE, content_duplicate |-> FALSE]

\* a planner that reports the name conflict of a duplicate it skips
plan_destination_SkipFlagsName(dir, src_name, src_hash, index) ==
  LET stem == PathStem(src_name)
      ext == IF PathSuffix(src_name) # <<>> THEN PathSuffix(src_name) ELSE ExtFlf
  IN IF src_hash \in DOMAIN index
     THEN [dest |-> NoPath, action |-> "SKIP_DUPLICATE",
           name_conflict |-> Exists(dir, stem \o ext), content_duplicate |-> TRUE]
     ELSE IF ~Exists(dir, stem \o ext)
     THEN [dest |-> P(dir, stem \o ext), action |-> "COPY",
           name_conflict |-> FALSE, content_duplicate |-> FALSE]
     ELSE [dest |-> P(dir, next_versioned_name(dir, stem, ext)), action |-> "COPY_RENAMED",
           name_conflict |-> TRUE, content_duplicate |-> FALSE]

\* plan_destination(out_target_dir, src_name, src_hash, existing_hash_to_path)
plan_destination(dir, src_name, src_hash, index) ==
  LET stem == PathStem(src_name)
      ext == IF PathSuffix(src_name) # <<>> THEN PathSuffix(src_name) ELSE ExtFlf
  IN IF src_hash \in DOMAIN index
     THEN [dest |-> NoPath, action |-> "SKIP_DUPLICATE",
           name_conflict |-> FALSE, content_duplicate |-> TRUE]
     ELSE IF ~Exists(dir, stem \o ext)
     THEN [dest |-> P(dir, stem \o ext), action |-> "COPY",
           name_conflict |-> FALSE, content_duplicate |-> FALSE]
     ELSE [dest |-> P(dir, next_versioned_name(dir, stem, ext)), action |-> "COPY_RENAMED",
           name_conflict |-> TRUE, content_duplicate |-> FALSE]

(* ------------------------------ indexer ------------------------------- *)
\* an indexer that keeps only the first file it hashes
setdefault_OnlyFirst(index, h, p) ==
  IF DOMAIN index # {} THEN index ELSE index @@ (h :> p)

\* an indexer that assigns, index[h] = p, so that the last file met stays
setdefault_LastWins(index, h, p) ==
  [d \in (DOMAIN index) \cup {h} |-> IF d = h THEN p ELSE index[d]]

\* existing_hash_to_path.setdefault(h, p)
setdefault(index, h, p) ==
  IF h \in DOMAIN index THEN index ELSE index @@ (h :> p)

(* ------------------------------ executor ------------------------------ *)
\* shutil.copy2(src, dest): dest now holds src's bytes, whatever it held before
copy2(files, src, dest) ==
  [q \in (DOMAIN files) \cup {dest} |-> IF q = dest THEN files[src] ELSE files[q]]

\* an executor that forgets to record the copy in the index
IndexAfterCopy_Forget(index, h, dest) == index

\* existing_hash_to_path[src_hash] = dest
IndexAfterCopy(index, h, dest) ==
  [d \in (DOMAIN index) \cup {h} |-> IF d = h THEN dest ELSE index[d]]

\* the audit record of a candidate (0 and NoPath: key absent)
Event(src, h, plan, action, dest) ==
  [input |-> src, input_hash |-> h, action |-> action, dest |-> dest,
   existing_same_name |-> plan.name_conflict,
   existing_same_content |-> plan.content_duplicate]

NoPlan == [dest |-> NoPath, action |-> "NONE",
           name_conflict |-> FALSE, content_duplicate |-> FALSE]

\* the names present in a directory
NamesIn(dir) == {p.name : p \in {q \in Files : q.dir = dir}}

\* the digests of the allow-listed files now under the destination root
HeldDigests == {fs[q] : q \in {r \in Files : UnderOut(r) /\ _is_allowed_font(r)}}

\* history record of one candidate: its failures, digest, what the planner saw
\* and answered (action, path, the two flags), whether copy2 completed (and onto an existing path), and the
\* action of its audit record (ABORT: the run ended without one)
Step(src, m, hashed, h, plan, wrote, outcome) ==
  [input |-> src, mode |-> m, hashed |-> hashed, digest |-> h,
   inIndex |-> (hashed /\ h \in DOMAIN existing_hash_to_path),
   taken |-> NamesIn(out_target_dir), held |-> HeldDigests,
   plan |-> plan.action, dest |-> plan.dest,
   flags |-> <<plan.name_conflict, plan.content_duplicate>>,
   wrote |-> wrote, existed |-> (wrote /\ plan.dest \in Files),
   outcome |-> outcome]

NoPrev == [done |-> FALSE, kind |-> "first", trace |-> <<>>, log |-> <<>>, in_files |-> <<>>,
           copied |-> 0, renamed |-> 0, skipped |-> 0, unhashed |-> {}, nfaults |-> 0,
           index |-> <<>>]

\* the environment's budget of failures is not used up
FaultsLeft == prev.nfaults + nfaults < MaxFaults

\* the failures the environment may inject for candidate src in this run: any,
\* within the budget; a replayed run meets the failures of the run it replays
MayFail(src, m) ==
  IF run = 2 /\ prev.kind # "again"
  THEN \E k \in 1..Len(prev.trace) : prev.trace[k].input = src /\ prev.trace[k].mode = m
  ELSE m = NoFault \/ FaultsLeft


(* ------------------------------- a run -------------------------------- *)
Init ==
  /\ cfg \in Configs
  /\ \E s \in Trees(SrcUniverse, MaxSrc), d \in Trees(DstUniverse, MaxDst) :
       /\ cfg.py39 \/ Cardinality(DOMAIN s) + Cardinality(DOMAIN d) <= MaxIngest
       /\ FirstNumbering(s @@ d)
       /\ fs = s @@ d @@ OtherFiles
  /\ dirs = DirsOf(fs)
  /\ pc = "args"
  /\ in_files = <<>>
  /\ existing_files = <<>>
  /\ existing_hash_to_path = <<>>
  /\ i = 1
  /\ copied = 0 /\ renamed = 0 /\ skipped = 0
  /\ log = <<>>
  /\ trace = <<>>
  /\ unhashed = {}
  /\ nfaults = 0
  /\ fs0 = fs
  /\ run = 1
  /\ prev = NoPrev
  /\ BrowserOff

\* a main that makes the output directories before it looks at its arguments
Validate_MkdirFirst ==
  /\ pc = "args"
  /\ dirs' = dirs \cup {out_dir, out_target_dir}
  /\ pc' = IF in_dir \notin dirs \/ in_dir = out_dir THEN "exit" ELSE "start"
  /\ UNCHANGED <<cfg, fs, in_files, existing_files, existing_hash_to_path, i, copied,
                 renamed, skipped, log, trace, unhashed, nfaults, fs0, run, prev>>
  /\ UNCHANGED browser

\* main: sys.exit(2) when --in is no directory or --in and --out are one
\* directory; otherwise the output root and the target directory are made
Validate ==
  /\ pc = "args"
  /\ IF in_dir \notin dirs
     THEN pc' = "exit" /\ UNCHANGED dirs
     ELSE IF in_dir = out_dir
     THEN pc' = "exit" /\ UNCHANGED dirs
     ELSE pc' = "start" /\ dirs' = dirs \cup {out_dir, out_target_dir}
  /\ UNCHANGED <<cfg, fs, in_files, existing_files, existing_hash_to_path, i, copied,
                 renamed, skipped, log, trace, unhashed, nfaults, fs0, run, prev>>
  /\ UNCHANGED browser

\* main: gather the input files in the order the walk yields them, and sort
Enumerate ==
  /\ pc = "start"
  /\ \E order \in Orders(iter_font_files(in_dir, cfg.recursive, exclude_subtree)) :
       in_files' = sorted(order)
  /\ pc' = "list"
  /\ UNCHANGED <<cfg, fs, dirs, existing_files, existing_hash_to_path, i, copied, renamed,
                 skipped, log, trace, unhashed, nfaults, fs0, run, prev>>
  /\ UNCHANGED browser

\* may hashing the existing files in bad, and no others, fail in this run?
MayFailExisting(bad) ==
  IF run = 2 /\ prev.kind # "again"
  THEN bad = prev.unhashed
  ELSE prev.nfaults + nfaults + Cardinality(bad) <= MaxFaults

\* an index_existing whose loop ends at the first file that fails to hash
IndexFrom_StopOnError(index, files, bad, k) ==
  LET fails == {n \in k..Len(files) : files[n] \in bad}
      stop == IF fails = {} THEN Len(files) + 1
              ELSE CHOOSE n \in fails : \A m \in fails : n <= m
      seen == k..(stop - 1)
  IN [h \in (DOMAIN index) \cup {xxhash_file(files[n]) : n \in seen} |->
        IF h \in DOMAIN index THEN index[h]
        ELSE files[CHOOSE n \in seen :
                     /\ xxhash_file(files[n]) = h
                     /\ \A m \in seen : xxhash_file(files[m]) = h => n <= m]]

RECURSIVE IndexFrom(_, _, _, _)
\* index_existing's loop over the list, from position k on: a file that fails to
\* hash is left out, and of two files with one digest the first stays
IndexFrom(index, files, bad, k) ==
  IF k > Len(files) THEN index
  ELSE IF files[k] \in bad THEN IndexFrom(index, files, bad, k + 1)
  ELSE IndexFrom(setdefault(index, xxhash_file(files[k]), files[k]), files, bad, k + 1)

\* index_existing: list the destination's fonts, in the order the walk yields them
ListExisting ==
  /\ pc = "list"
  /\ existing_files' \in Orders(iter_font_files(out_dir, TRUE, ""))
  /\ pc' = "index"
  /\ UNCHANGED <<cfg, fs, dirs, in_files, existing_hash_to_path, i, copied, renamed,
                 skipped, log, trace, unhashed, nfaults, fs0, run, prev>>
  /\ UNCHANGED browser

\* index_existing: hash each listed file into the index and return it (the list
\* is gone with the call); then process_inputs starts
IndexExisting ==
  /\ pc = "index"
  /\ \E bad \in SUBSET iter_font_files(out_dir, TRUE, "") :
       /\ MayFailExisting(bad)
       /\ existing_hash_to_path' = IndexFrom(<<>>, existing_files, bad, 1)
       /\ unhashed' = bad
       /\ nfaults' = nfaults + Cardinality(bad)
  /\ existing_files' = <<>>
  /\ pc' = "process"
  /\ i' = 1
  /\ copied' = 0 /\ renamed' = 0 /\ skipped' = 0
  /\ UNCHANGED <<cfg, fs, dirs, in_files, log, trace, fs0, run, prev>>
  /\ UNCHANGED browser

\* an exception leaves process_inputs and main
Crash(entry) ==
  /\ pc' = "crashed"
  /\ trace' = Append(trace, entry)
  /\ UNCHANGED <<i, log>>

\* a write_jsonl that opens the log for writing, not for appending
Recorded_Truncate(event, entry) ==
  /\ log' = <<event>>
  /\ trace' = Append(trace, entry)
  /\ i' = i + 1
  /\ UNCHANGED pc

\* the candidate's record is appended and the loop moves on
Recorded(event, entry) ==
  /\ log' = Append(log, event)
  /\ trace' = Append(trace, entry)
  /\ i' = i + 1
  /\ UNCHANGED pc

\* process_inputs: xxhash_file raised
HashFailed(src, m) ==
  /\ IF m.log >= 1
     THEN Crash(Step(src, m, FALSE, 0, NoPlan, FALSE, "ABORT"))
     ELSE Recorded(Event(src, 0, NoPlan, "ERROR_HASH", NoPath),
                   Step(src, m, FALSE, 0, NoPlan, FALSE, "ERROR_HASH"))
  /\ UNCHANGED <<fs, existing_hash_to_path, copied, renamed, skipped>>

\* process_inputs: the planner answered SKIP_DUPLICATE
Skip(src, m, h, plan) ==
  /\ (run = 1 \/ prev.kind = "again") => (~m.copy /\ m.log <= 1)
  /\ skipped' = skipped + 1
  /\ IF m.log >= 1
     THEN Crash(Step(src, m, TRUE, h, plan, FALSE, "ABORT"))
     ELSE Recorded(Event(src, h, plan, "SKIP_DUPLICATE", NoPath),
                   Step(src, m, TRUE, h, plan, FALSE, "SKIP_DUPLICATE"))
  /\ UNCHANGED <<fs, existing_hash_to_path, copied, renamed>>

\* an executor that enters the digest in the index before it copies
CopyFailed_IndexFirst(src, m, h, plan) ==
  /\ existing_hash_to_path' = IndexAfterCopy(existing_hash_to_path, h, plan.dest)
  /\ IF m.log >= 1
     THEN Crash(Step(src, m, TRUE, h, plan, FALSE, "ABORT"))
     ELSE Recorded(Event(src, h, plan, "ERROR_COPY", NoPath),
                   Step(src, m, TRUE, h, plan, FALSE, "ERROR_COPY"))
  /\ UNCHANGED <<fs, copied, renamed, skipped>>

\* process_inputs: the copy raised
CopyFailed(src, m, h, plan) ==
  /\ IF m.log >= 1
     THEN Crash(Step(src, m, TRUE, h, plan, FALSE, "ABORT"))
     ELSE Recorded(Event(src, h, plan, "ERROR_COPY", NoPath),
                   Step(src, m, TRUE, h, plan, FALSE, "ERROR_COPY"))
  /\ UNCHANGED <<fs, existing_hash_to_path, copied, renamed, skipped>>

\* an executor that counts the copy as soon as copy2 returns, before the record
\* is written
CopyDone_CountFirst(src, m, h, plan) ==
  /\ fs' = copy2(fs, src, plan.dest)
  /\ existing_hash_to_path' = IndexAfterCopy(existing_hash_to_path, h, plan.dest)
  /\ copied' = IF plan.action = "COPY" THEN copied + 1 ELSE copied
  /\ renamed' = IF plan.action = "COPY" THEN renamed ELSE renamed + 1
  /\ CASE m.log = 0 ->
            Recorded(Event(src, h, plan, plan.action, plan.dest),
                     Step(src, m, TRUE, h, plan, TRUE, plan.action))
       [] m.log = 1 ->
            Recorded(Event(src, h, plan, "ERROR_COPY", plan.dest),
                     Step(src, m, TRUE, h, plan, TRUE, "ERROR_COPY"))
       [] OTHER ->
            Crash(Step(src, m, TRUE, h, plan, TRUE, "ABORT"))
  /\ UNCHANGED skipped

\* process_inputs: the copy completed; the index is updated before the record is
\* written, and a write_jsonl that raises lands in the except clause
CopyDone(src, m, h, plan) ==
  /\ fs' = copy2(fs, src, plan.dest)
  /\ existing_hash_to_path' = IndexAfterCopy(existing_hash_to_path, h, plan.dest)
  /\ CASE m.log = 0 ->
            /\ Recorded(Event(src, h, plan, plan.action, plan.dest),
                        Step(src, m, TRUE, h, plan, TRUE, plan.action))
            /\ copied' = IF plan.action = "COPY" THEN copied + 1 ELSE copied
            /\ renamed' = IF plan.action = "COPY" THEN renamed ELSE renamed + 1
       [] m.log = 1 ->
            /\ Recorded(Event(src, h, plan, "ERROR_COPY", plan.dest),
                        Step(src, m, TRUE, h, plan, TRUE, "ERROR_COPY"))
            /\ UNCHANGED <<copied, renamed>>
       [] OTHER ->
            /\ Crash(Step(src, m, TRUE, h, plan, TRUE, "ABORT"))
            /\ UNCHANGED <<copied, renamed>>
  /\ UNCHANGED skipped

\* process_inputs: one turn of the loop over in_files
ProcessStep ==
  /\ pc = "process" /\ i <= Len(in_files)
  /\ \E m \in Modes :
       LET src == in_files[i]
           h == xxhash_file(src)
           plan == plan_destination(out_target_dir, src.name, h, existing_hash_to_path)
       IN /\ MayFail(src, m)
          /\ nfaults' = IF m = NoFault THEN nfaults ELSE nfaults + 1
          /\ IF m.hash THEN HashFailed(src, m)
             ELSE IF plan.action = "SKIP_DUPLICATE" THEN Skip(src, m, h, plan)
             ELSE IF m.copy THEN CopyFailed(src, m, h, plan)
             ELSE CopyDone(src, m, h, plan)
  /\ UNCHANGED <<cfg, dirs, in_files, existing_files, unhashed, fs0, run, prev>>
  /\ UNCHANGED browser

\* process_inputs returns its counters; main prints the summary
ProcessReturn ==
  /\ pc = "process" /\ i > Len(in_files)
  /\ pc' = "done"
  /\ UNCHANGED <<cfg, fs, dirs, in_files, existing_files, existing_hash_to_path, i, copied,
                 renamed, skipped, log, trace, unhashed, nfaults, fs0, run, prev>>
  /\ UNCHANGED browser

Next ==
  Validate \/ Enumerate \/ ListExisting \/ IndexExisting \/ ProcessStep \/ ProcessReturn

Spec == Init /\ [][Next]_vars

(* ----------------------------- second runs ---------------------------- *)
\* what a second run remembers of the first
Result(kind) ==
  [done |-> TRUE, kind |-> kind, trace |-> trace, log |-> log, in_files |-> in_files,
   copied |-> copied, renamed |-> renamed, skipped |-> skipped, unhashed |-> unhashed,
   nfaults |-> nfaults, index |-> existing_hash_to_path]

\* main starts afresh: its own log file, an empty index, zeroed counters
Restart(kind) ==
  /\ pc = "done" /\ run = 1
  /\ run' = 2
  /\ prev' = Result(kind)
  /\ existing_hash_to_path' = <<>>
  /\ i' = 1
  /\ copied' = 0 /\ renamed' = 0 /\ skipped' = 0
  /\ log' = <<>>
  /\ trace' = <<>>
  /\ unhashed' = {}
  /\ nfaults' = 0
  /\ UNCHANGED <<cfg, dirs, existing_files>>
  /\ UNCHANGED browser

\* the engine is run again on the same source and the destination as it now is
RunAgain ==
  /\ Restart("again")
  /\ pc' = "start"
  /\ in_files' = <<>>
  /\ fs0' = fs
  /\ UNCHANGED fs

\* the run is repeated from the same initial destination with the same candidate
\* list and the same failures
ReplaySameList ==
  /\ Restart("same")
  /\ pc' = "list"
  /\ fs' = fs0
  /\ UNCHANGED <<in_files, fs0>>

\* the run is repeated from the same initial trees; the walk may yield the files
\* in another order
ReplayReenumerate ==
  /\ Restart("reenum")
  /\ pc' = "start"
  /\ in_files' = <<>>
  /\ fs' = fs0
  /\ UNCHANGED fs0

\* the run is repeated from the same initial destination with the candidate list
\* less one candidate that ended in an error, the others failing as they did
ReplayWithout ==
  /\ Restart("without")
  /\ \E k \in 1..Len(trace) :
       /\ trace[k].outcome \in {"ERROR_HASH", "ERROR_COPY"}
       /\ in_files' = SubSeq(in_files, 1, k - 1) \o SubSeq(in_files, k + 1, Len(in_files))
  /\ pc' = "list"
  /\ fs' = fs0
  /\ UNCHANGED fs0

NextAgain == Next \/ RunAgain
SpecAgain == Init /\ [][NextAgain]_vars

NextReplay == Next \/ ReplaySameList \/ ReplayReenumerate
SpecReplay == Init /\ [][NextReplay]_vars

NextWithout == Next \/ ReplayWithout
SpecWithout == Init /\ [][NextWithout]_vars


(* --------------------------- the font browser ------------------------- *)
(* src/figlet_font_browser.py, a Textual app. Key bindings call the       *)
(* action_* methods on the app's event loop, and run_worker is given a    *)
(* coroutine, which Textual runs as a task of the same loop: a handler    *)
(* runs to its end and a worker runs from one await to the next with      *)
(* nothing in between. The only await of a save-all worker is the one on  *)
(* run_figlet. Fonts are plain files (no archives), named by their path   *)
(* below font_dir; a rendering is identified by the font in its header.   *)

ExtAsc == <<".", "a", "s", "c">>

\* the fonts that may lie below font_dir: a.flf, a.tlf, a_02.flf, 0.flf, b/a.flf
FontUniverse ==
  {NameA, <<"a">> \o ExtTlf, <<"a", "_", "0", "2">> \o ExtFlf, <<"0">> \o ExtFlf,
   <<"b", "/", "a">> \o ExtFlf}

\* the --out-prefix values tried
Prefixes == {<<>>, <<"a", "_">>}

\* the filter texts typed
Needles == {<<>>, <<"0">>, <<"B">>}

\* text of a file that was in the output directory before the session
OldText == <<"o", "l", "d">>

\* the names a file in the output directory may have before the session
AscUniverse(prefix) ==
  {prefix \o n \o ExtAsc : n \in {<<"0">>, <<"a">>, <<"a", "_", "0", "2">>}}

\* the importer is not running
ImporterOff ==
  /\ cfg = [recursive |-> FALSE, nested |-> FALSE, outsub |-> FALSE, py39 |-> TRUE,
            roots |-> "ok"]
  /\ fs = <<>>
  /\ dirs = {}
  /\ pc = "browser"
  /\ in_files = <<>>
  /\ existing_files = <<>>
  /\ existing_hash_to_path = <<>>
  /\ i = 1
  /\ copied = 0 /\ renamed = 0 /\ skipped = 0
  /\ log = <<>>
  /\ trace = <<>>
  /\ unhashed = {}
  /\ nfaults = 0
  /\ fs0 = <<>>
  /\ run = 1
  /\ prev = NoPrev

\* scan_fonts: the fonts sorted on str(display_path).lower(); the keys of the
\* modelled fonts are distinct, so the walk's order does not show
scan_fonts(S) ==
  CHOOSE s \in Orders(S) :
    \A j \in 1..Len(s), k \in 1..Len(s) : j < k => StrLess(Lower(s[j]), Lower(s[k]))

\* is needle a substring of text?
Contains(text, needle) ==
  \E k \in 0..(Len(text) - Len(needle)) : SubSeq(text, k + 1, k + Len(needle)) = needle

\* _apply_filter: the fonts whose path contains the lowered needle (the display
\* path, the path and the base name of a plain font are all parts of its path)
matches(entry, needle) == Contains(Lower(entry), Lower(needle))

RECURSIVE Select(_, _)
Select(fonts, needle) ==
  IF fonts = <<>> THEN <<>>
  ELSE (IF matches(Head(fonts), needle) THEN <<Head(fonts)>> ELSE <<>>)
       \o Select(Tail(fonts), needle)

\* the final component of a path
LastSlash(s) ==
  LET sl == {k \in 1..Len(s) : s[k] = "/"}
  IN IF sl = {} THEN 0 ELSE CHOOSE k \in sl : \A j \in sl : j <= k

\* FontEntry.base_name: path.stem
base_name(font) == PathStem(SubSeq(font, LastSlash(font) + 1, Len(font)))

\* rel_path.with_suffix(""): the path without the suffix of its final component
WithoutSuffix(font) ==
  SubSeq(font, 1, LastSlash(font)) \o base_name(font)

\* str.isalnum() on one of the modelled characters
IsAlnum(c) ==
  \/ Ord(c) \in 48..57
  \/ Ord(c) \in 65..90
  \/ Ord(c) \in 97..122

RECURSIVE SafeChars(_)
\* .replace("/", "__"), then every character but letters, digits, "-" and "_"
\* becomes "_"
SafeChars(s) ==
  IF s = <<>> THEN <<>>
  ELSE (IF Head(s) = "/" THEN <<"_", "_">>
        ELSE IF IsAlnum(Head(s)) \/ Head(s) \in {"-", "_"} THEN <<Head(s)>>
        ELSE <<"_">>)
       \o SafeChars(Tail(s))

RECURSIVE StripUnderscores(_)
\* str.strip("_")
StripUnderscores(s) ==
  IF s = <<>> THEN <<>>
  ELSE IF Head(s) = "_" THEN StripUnderscores(Tail(s))
  ELSE IF s[Len(s)] = "_" THEN StripUnderscores(SubSeq(s, 1, Len(s) - 1))
  ELSE s

\* _sanitise_name: the file-name base of a font
_sanitise_name(font) ==
  LET cleaned == StripUnderscores(SafeChars(WithoutSuffix(font)))
  IN IF cleaned = <<>> THEN base_name(font) ELSE cleaned

\* base=None
None == <<"N", "o", "n", "e">>

\* dict.get(key, 0)
get(counts, key) == IF key \in DOMAIN counts THEN counts[key] ELSE 0

\* f"{out_prefix}{counter}.asc"
CounterName(c) == config.out_prefix \o Decimal(c) \o ExtAsc

\* f"{out_prefix}{base}{suffix}.asc", suffix "" for used = 0, else f"_{used+1:02d}"
BaseName(base, used) ==
  config.out_prefix \o base \o (IF used = 0 THEN <<>> ELSE <<"_">> \o Fmt02d(used + 1))
  \o ExtAsc

RECURSIVE FirstFree(_, _, _)
\* the while True loops: the first number from n on whose name no file has
FirstFree(files, base, n) ==
  LET candidate == IF base = None THEN CounterName(n) ELSE BaseName(base, n)
  IN IF candidate \notin DOMAIN files THEN n ELSE FirstFree(files, base, n + 1)

\* a _next_output_path that takes the name its own counts give, without looking
\* into the directory
_next_output_path_TrustCounts(base, counts) ==
  IF base = None
  THEN [path |-> CounterName(counter), existed |-> CounterName(counter) \in DOMAIN asc,
        counter |-> counter + 1, counts |-> counts]
  ELSE LET used == get(counts, base)
       IN [path |-> BaseName(base, used), existed |-> BaseName(base, used) \in DOMAIN asc,
           counter |-> counter,
           counts |-> (base :> (used + 1)) @@ counts]

\* _next_output_path: the path, whether a file had it when it was returned, and
\* self.counter and counts as the call leaves them
_next_output_path(base, counts) ==
  IF base = None
  THEN LET n == FirstFree(asc, None, counter)
       IN [path |-> CounterName(n), existed |-> CounterName(n) \in DOMAIN asc,
           counter |-> n + 1, counts |-> counts]
  ELSE LET used == FirstFree(asc, base, get(counts, base))
       IN [path |-> BaseName(base, used), existed |-> BaseName(base, used) \in DOMAIN asc,
           counter |-> counter,
           counts |-> (base :> (used + 1)) @@ counts]

\* Path.write_text: the file now holds text, whatever it held before
write_text(files, path, text) == (path :> text) @@ files

\* one file written by a save
Saved(out, text, by) ==
  [path |-> out.path, existed |-> out.existed, overwrote |-> out.path \in DOMAIN asc,
   text |-> text, by |-> by]

\* the app starts: the font directory is scanned, the counter is 0
InitBrowser ==
  /\ ImporterOff
  /\ config \in [out_prefix : Prefixes]
  /\ \E S \in SUBSET FontUniverse :
       /\ Cardinality(S) \in 1..MaxFonts
       /\ all_fonts = scan_fonts(S)
  /\ filtered_fonts = all_fonts
  /\ counter = 0
  /\ last_render = <<>>
  /\ \E old \in SUBSET AscUniverse(config.out_prefix) :
       /\ Cardinality(old) <= MaxAsc
       /\ asc = [n \in old |-> OldText]
  /\ workers = [w \in 1..MaxWorkers |-> NoWorker]
  /\ saves = <<>>

\* on_input_changed: the filter text changes
_apply_filter ==
  /\ \E needle \in Needles : filtered_fonts' = Select(all_fonts, needle)
  /\ filtered_fonts' # filtered_fonts
  /\ UNCHANGED <<config, all_fonts, counter, last_render, asc, workers, saves>>
  /\ UNCHANGED importer

\* the worker of _render_selected ends: the preview of a font is the last rendering
_render_selected ==
  /\ \E k \in 1..Len(all_fonts) : last_render' = all_fonts[k]
  /\ last_render' # last_render
  /\ UNCHANGED <<config, all_fonts, filtered_fonts, counter, asc, workers, saves>>
  /\ UNCHANGED importer

\* key s: the last rendering is written to the next numbered file
action_save_current ==
  /\ filtered_fonts # <<>>
  /\ Cardinality({k \in 1..Len(saves) : saves[k].by = 0}) < MaxSaveCurrent
  /\ LET out == _next_output_path(None, <<>>)
     IN /\ counter' = out.counter
        /\ asc' = write_text(asc, out.path, last_render)
        /\ saves' = Append(saves, Saved(out, last_render, 0))
  /\ UNCHANGED <<config, all_fonts, filtered_fonts, last_render, workers>>
  /\ UNCHANGED importer

\* key a: a worker is started on a copy of the filtered list and runs to its
\* first await
action_save_all ==
  /\ filtered_fonts # <<>>
  /\ \E w \in 1..MaxWorkers :
       /\ workers[w].status = "idle"
       /\ \A v \in 1..(w - 1) : workers[v].status # "idle"
       /\ workers' = [workers EXCEPT ![w] =
            [status |-> "await", fonts |-> filtered_fonts, k |-> 1,
             name_counts |-> <<>>, saved |-> 0]]
  /\ UNCHANGED <<config, all_fonts, filtered_fonts, counter, last_render, asc, saves>>
  /\ UNCHANGED importer

\* a save-all worker resumes after run_figlet: it writes the rendering of its
\* font and goes on to the await for the next font, or ends
worker(w) ==
  /\ workers[w].status = "await"
  /\ LET fe == workers[w].fonts[workers[w].k]
         rendered == fe
         out == _next_output_path(_sanitise_name(fe), workers[w].name_counts)
     IN /\ last_render' = rendered
        /\ counter' = out.counter
        /\ asc' = write_text(asc, out.path, rendered)
        /\ saves' = Append(saves, Saved(out, rendered, w))
        /\ workers' = [workers EXCEPT ![w] =
             [status |-> IF workers[w].k = Len(workers[w].fonts) THEN "done" ELSE "await",
              fonts |-> workers[w].fonts, k |-> workers[w].k + 1,
              name_counts |-> out.counts, saved |-> workers[w].saved + 1]]
  /\ UNCHANGED <<config, all_fonts, filtered_fonts>>
  /\ UNCHANGED importer

NextBrowser ==
  \/ _apply_filter
  \/ _render_selected
  \/ action_save_current
  \/ action_save_all
  \/ \E w \in 1..MaxWorkers : worker(w)

SpecBrowser == InitBrowser /\ [][NextBrowser]_vars


(* ------------------------------- claims ------------------------------- *)
\* the candidates of this run whose copy2 completed
Writes == {k \in 1..Len(trace) : trace[k].wrote}

\* C1: no overwrite - every copy of a run goes to a path that did not exist at
\* the moment of the write, so no path written was present before the run.
C1_NoOverwrite ==
  \A k \in Writes : ~trace[k].existed /\ trace[k].dest \notin DOMAIN fs0

\* C1 happens: a file was written although its name was taken in the target directory
C1_Witness ==
  \E k \in Writes : trace[k].plan = "COPY_RENAMED" /\ trace[k].dest \in Files

\* C2: no content duplication within a run - any two distinct files written by
\* one run have different digests.
C2_NoContentDuplication ==
  \A j, k \in Writes : j # k => trace[j].digest # trace[k].digest

\* C2 happens: the run has written two files
C2_Witness ==
  \E j, k \in Writes : j # k /\ trace[j].dest # trace[k].dest

\* C3: no loss of new content - at the end of a run the destination tree holds
\* a file with the digest of every candidate whose outcome is not ERROR_HASH or
\* ERROR_COPY.
C3_NoLoss ==
  pc = "done" =>
    \A k \in 1..Len(trace) :
      trace[k].outcome \notin {"ERROR_HASH", "ERROR_COPY"} =>
        \E p \in Files : UnderOut(p) /\ fs[p] = fs[trace[k].input]

\* C3 happens: a finished run that skipped one candidate and placed another under
\* a versioned name
C3_Witness ==
  /\ pc = "done"
  /\ \E k \in 1..Len(trace) : trace[k].outcome = "SKIP_DUPLICATE"
  /\ \E k \in 1..Len(trace) : trace[k].outcome = "COPY_RENAMED"

\* C4 as claimed: every file written has a digest different from that of every
\* allow-listed file under the destination root at the time of the write.
C4_NoSecondCopyOfAnyHeld ==
  \A k \in Writes : trace[k].digest \notin trace[k].held

\* C4 amended: every file written has a digest different from that of every
\* allow-listed file under the destination root that index_existing hashed or
\* that was written earlier in the run (a file that failed to hash is left out
\* of the index, and its content can be copied again).
C4_NoSecondCopyOfIndexed ==
  /\ \A k \in Writes :
       \A j \in Writes : j < k => trace[j].digest # trace[k].digest
  /\ \A k \in Writes :
       \A q \in (DOMAIN fs0) \ unhashed :
         (UnderOut(q) /\ _is_allowed_font(q)) => fs0[q] # trace[k].digest

\* C4 happens: a file was written into a destination that held indexed fonts
\* and a font that failed to hash
C4_Witness ==
  /\ pc = "done"
  /\ unhashed # {}
  /\ \E k \in Writes : Cardinality(trace[k].held) > 1


\* a second run on the same trees has finished
AgainDone == run = 2 /\ prev.kind = "again" /\ pc = "done"

CleanRuns ==
  /\ \A k \in 1..Len(prev.trace) : prev.trace[k].outcome \notin {"ERROR_HASH", "ERROR_COPY"}
  /\ nfaults = 0

C6_DuplicatesInRunCaught ==
  /\ \A j \in 1..Len(trace) :
       (trace[j].hashed /\ ~trace[j].inIndex /\ ~trace[j].mode.copy) => j \in Writes
  /\ \A j \in Writes :
       /\ trace[j].plan \in {"COPY", "COPY_RENAMED"}
       /\ trace[j].dest \in Files /\ fs[trace[j].dest] = trace[j].digest
       /\ \A k \in 1..Len(trace) :
            (j < k /\ trace[k].hashed /\ trace[k].digest = trace[j].digest) =>
              trace[k].plan = "SKIP_DUPLICATE"

\* C6 happens: a candidate was copied and a later one with the same digest, not in
\* the index before the run, was processed
C6_Witness ==
  \E j \in Writes : \E k \in 1..Len(trace) :
    /\ j < k /\ trace[k].hashed /\ trace[k].digest = trace[j].digest
    /\ ~trace[j].inIndex
    /\ trace[k].outcome = "SKIP_DUPLICATE"

\* the candidates the planner gave a versioned name
Renames == {k \in 1..Len(trace) : trace[k].plan = "COPY_RENAMED"}

\* the version number n >= 2 with which name is stem_v{n:02d}ext, 0 if none
VersionOf(name, stem, ext) ==
  LET ns == {n \in 2..(Len(name) + 2) : name = VersionedName(stem, n, ext)}
  IN IF ns = {} THEN 0 ELSE CHOOSE n \in ns : TRUE

\* C7: versioned naming picks the smallest free number - a hashed candidate whose
\* digest is not in the index and whose name is taken in the target directory
\* is planned COPY_RENAMED to {stem}_v{n:02d}{ext}, n the smallest integer >= 2
\* whose name is not taken.
C7_SmallestFreeVersion ==
  \A k \in 1..Len(trace) :
    LET e == trace[k]
        stem == PathStem(e.input.name)
        ext == PathSuffix(e.input.name)
        n == VersionOf(e.dest.name, stem, ext)
    IN (e.hashed /\ ~e.inIndex /\ (stem \o ext) \in e.taken) =>
         /\ e.plan = "COPY_RENAMED"
         /\ e.dest.dir = out_target_dir
         /\ n >= 2
         /\ VersionedName(stem, n, ext) \notin e.taken
         /\ \A m \in 2..(n - 1) : VersionedName(stem, m, ext) \in e.taken

\* C7 happens: a candidate got _v02 although _v03 was taken (the gap is filled)
C7_Witness ==
  \E k \in Renames : trace[k].dest.name = NameA2 /\ NameA3 \in trace[k].taken

\* C7 happens, too: a candidate got _v03 because the name and _v02 were taken
C7_WitnessThird ==
  \E k \in Renames : trace[k].dest.name = NameA3 /\ NameA2 \in trace[k].taken


\* what a run decided for its k-th candidate
Decision(t, k) ==
  [input |-> t[k].input, plan |-> t[k].plan, outcome |-> t[k].outcome, dest |-> t[k].dest]

\* C8: deterministic versioning - a run repeated from the same initial
\* destination with the same candidate list and the same failures takes the same
\* actions and assigns the same destination names, candidate by candidate.
C8_DeterministicVersioning ==
  (run = 2 /\ prev.kind = "same") =>
    /\ Len(trace) <= Len(prev.trace)
    /\ \A k \in 1..Len(trace) : Decision(trace, k) = Decision(prev.trace, k)
    /\ pc = "done" => (Len(trace) = Len(prev.trace) /\ log = prev.log)

\* C8 happens: the repeated run has finished, it gave out a versioned name, and
\* its walk of the destination left another file in the index than the first
C8_Witness ==
  /\ run = 2 /\ prev.kind = "same" /\ pc = "done"
  /\ existing_hash_to_path # prev.index
  /\ \E k \in 1..Len(trace) : trace[k].plan = "COPY_RENAMED"
  /\ \E k \in 1..Len(trace) : trace[k].plan = "SKIP_DUPLICATE"

\* C9: sorting by case-insensitive filename makes the assignment independent of
\* the order of enumeration - for the same source files and the same initial
\* destination every source file gets the same action and destination path in
\* whatever order the walk yields the files.
C9_OrderIndependent ==
  (run = 2 /\ prev.kind = "reenum" /\ pc = "done") =>
    \A j \in 1..Len(trace) : \A k \in 1..Len(prev.trace) :
      trace[j].input = prev.trace[k].input =>
        /\ trace[j].outcome = prev.trace[k].outcome
        /\ trace[j].dest = prev.trace[k].dest

\* C10: self-ingestion exclusion - with the destination root inside the source
\* root and a recursive scan, no file under the destination root is a candidate.
C10_SelfIngestionExcluded ==
  (cfg.nested /\ cfg.recursive) =>
    \A k \in 1..Len(in_files) : ~UnderOut(in_files[k])


\* the actions an audit record can carry
Outcomes == {"COPY", "COPY_RENAMED", "SKIP_DUPLICATE", "ERROR_HASH", "ERROR_COPY"}

\* C11: a per-file failure never aborts the run - whatever fails for a
\* candidate, no exception leaves process_inputs, and the run that returns has
\* taken every candidate of the list, in order, to an outcome.
C11_FailureNeverAborts ==
  /\ pc # "crashed"
  /\ pc = "done" =>
       /\ Len(trace) = Len(in_files)
       /\ \A k \in 1..Len(trace) :
            trace[k].input = in_files[k] /\ trace[k].outcome \in Outcomes


\* C12: per-file error isolation - when a candidate ends in ERROR_HASH or
\* ERROR_COPY, every other candidate gets the action and the destination path
\* it gets in a run over the same initial destination and the same candidate
\* list without that candidate.
C12_ErrorIsolation ==
  (run = 2 /\ prev.kind = "without" /\ pc = "done") =>
    \A j \in 1..Len(trace) : \A k \in 1..Len(prev.trace) :
      trace[j].input = prev.trace[k].input =>
        /\ trace[j].outcome = prev.trace[k].outcome
        /\ trace[j].dest = prev.trace[k].dest


\* the audit records that carry action a
Records(a) == {k \in 1..Len(log) : log[k].action = a}

\* C13: the summary counts match the outcomes - when process_inputs returns,
\* copied, renamed and skipped are the numbers of candidates recorded COPY,
\* COPY_RENAMED and SKIP_DUPLICATE; a candidate recorded ERROR_HASH or
\* ERROR_COPY is in none of the three but has its record, so the three counters
\* and the errors add up to the number of candidates.
C13_SummaryMatchesOutcomes ==
  pc = "done" =>
    /\ copied = Cardinality(Records("COPY"))
    /\ renamed = Cardinality(Records("COPY_RENAMED"))
    /\ skipped = Cardinality(Records("SKIP_DUPLICATE"))
    /\ \A k \in 1..Len(log) : log[k].action \in Outcomes
    /\ copied + renamed + skipped
         + Cardinality(Records("ERROR_HASH") \cup Records("ERROR_COPY")) = Len(in_files)

\* C13 happens: a run returned with a candidate counted and another in error
C13_Witness ==
  /\ pc = "done"
  /\ copied + renamed + skipped > 0
  /\ Records("ERROR_HASH") \cup Records("ERROR_COPY") # {}


\* s is a prefix of t
IsPrefix(s, t) == Len(s) <= Len(t) /\ SubSeq(t, 1, Len(s)) = s

\* C14: the audit log is append-only, one record per candidate, in order - once
\* k candidates have been processed the log holds exactly k records, the i-th
\* about the i-th candidate of the list, and every step of the run leaves the
\* log as it was or appends one record to it.
C14_AppendOnlyOnePerCandidate ==
  /\ [](pc \in {"process", "done", "crashed"} =>
          /\ Len(log) = i - 1
          /\ \A k \in 1..Len(log) : log[k].input = in_files[k])
  /\ [][log' = log \/ (Len(log') = Len(log) + 1 /\ IsPrefix(log, log'))]_vars

\* C14 happens: the log holds the records of two candidates
C14_Witness ==
  /\ pc = "done"
  /\ Len(log) = 2
  /\ log[1].input # log[2].input


\* the digests of the fonts under the destination root that the k-th candidate
\* of the run could be told from: those index_existing hashed and those written
\* earlier in the run
KnownDigests(k) ==
  {fs0[q] : q \in {r \in (DOMAIN fs0) \ unhashed : UnderOut(r) /\ _is_allowed_font(r)}}
    \cup {trace[j].digest : j \in {w \in Writes : w < k}}

\* what C15 says of the k-th candidate, held being the digests that make a
\* hashed candidate a duplicate
OutsubRule(k, held) ==
  LET e == trace[k]
      name == PathStem(e.input.name) \o PathSuffix(e.input.name)
  IN /\ e.wrote => e.dest.dir = "out/t"
     /\ (e.hashed /\ e.digest \in held) => e.plan = "SKIP_DUPLICATE"
     /\ (e.hashed /\ e.digest \notin held /\ name \notin e.taken) =>
          (e.plan = "COPY" /\ e.dest = P("out/t", name))
     /\ (e.hashed /\ e.digest \notin held /\ name \in e.taken) =>
          (e.plan = "COPY_RENAMED" /\ e.dest.dir = "out/t")

\* C15 as claimed: with --outsub every file written lies directly in the target
\* directory, a candidate whose digest is that of an allow-listed file anywhere
\* under the destination root is SKIP_DUPLICATE, and a candidate with a new
\* digest whose name is free in the target directory is COPY under its own
\* name, whatever names the rest of the root holds.
C15_OutsubWholeRootDedup ==
  cfg.outsub => \A k \in 1..Len(trace) : OutsubRule(k, trace[k].held)

\* C15 amended: the same, a duplicate being a candidate whose digest is that of
\* an allow-listed file under the root that index_existing hashed or of a file
\* written earlier in the run.
C15_OutsubIndexedRootDedup ==
  cfg.outsub => \A k \in 1..Len(trace) : OutsubRule(k, KnownDigests(k))

\* C15 happens: with --outsub one candidate was skipped for a file outside the
\* target directory and another was copied under a name taken outside it
C15_Witness ==
  /\ cfg.outsub
  /\ \E k \in 1..Len(trace) :
       /\ trace[k].plan = "SKIP_DUPLICATE"
       /\ \A q \in Files : (q.dir = "out/t" /\ _is_allowed_font(q)) => fs[q] # trace[k].digest
  /\ \E k \in Writes :
       /\ trace[k].plan = "COPY"
       /\ trace[k].dest.dir = "out/t"
       /\ Exists("out", trace[k].dest.name)


\* main has been given roots it rejects
BadRoots == in_dir \notin DirsOf(fs0) \/ in_dir = out_dir

\* C16: configuration errors are fatal before any effect - when --in is not an
\* existing directory, or --in and --out are one directory, main exits with
\* status 2 and has by then made no directory, listed, indexed or written no
\* file, and appended no audit record.
C16_ConfigErrorsFatalBeforeEffect ==
  BadRoots =>
    /\ pc \in {"args", "exit"}
    /\ dirs = DirsOf(fs0)
    /\ fs = fs0
    /\ in_files = <<>> /\ existing_files = <<>> /\ existing_hash_to_path = <<>>
    /\ log = <<>> /\ trace = <<>>

\* C16 happens: main has exited on roots it rejects, with --outsub naming a
\* directory that does not exist
C16_Witness ==
  /\ pc = "exit"
  /\ cfg.outsub
  /\ out_target_dir \notin dirs

\* C16 happens for either reason: --in missing, --in the same as --out
C16_WitnessSame == pc = "exit" /\ in_dir = out_dir


\* C17: no false duplicate - the index maps every digest it holds to a file
\* that is under the destination root and has that digest, so whenever a
\* candidate is given SKIP_DUPLICATE its digest is in the index and a file with
\* that digest is in the destination at that moment; also when files of the
\* destination failed to hash during indexing.
C17_NoFalseDuplicate ==
  /\ \A h \in DOMAIN existing_hash_to_path :
       LET q == existing_hash_to_path[h]
       IN q \in Files /\ UnderOut(q) /\ fs[q] = h
  /\ \A k \in 1..Len(trace) :
       trace[k].plan = "SKIP_DUPLICATE" =>
         (trace[k].inIndex /\ trace[k].digest \in trace[k].held)

\* C17 happens: a candidate was skipped in a run whose indexing failed to hash a
\* destination file
C17_Witness ==
  /\ unhashed # {}
  /\ \E k \in 1..Len(trace) : trace[k].outcome = "SKIP_DUPLICATE"


\* the path {stem}{ext} of the k-th candidate in the target directory
PlainPath(k) ==
  P(out_target_dir, PathStem(trace[k].input.name) \o PathSuffix(trace[k].input.name))

\* C18 as claimed: COPY_RENAMED means a name collision with other content -
\* whenever a candidate is planned COPY_RENAMED, the file at {stem}{ext} in the
\* target directory has a digest different from the candidate's.
C18_RenamedMeansOtherContent ==
  \A k \in Renames :
    PlainPath(k) \in Files /\ fs[PlainPath(k)] # trace[k].digest

\* C18 amended: whenever a candidate is planned COPY_RENAMED, a file is at
\* {stem}{ext} in the target directory, and unless index_existing failed to
\* hash that file its digest is different from the candidate's.
C18_RenamedMeansOtherIndexedContent ==
  \A k \in Renames :
    /\ PlainPath(k) \in Files
    /\ PlainPath(k) \notin unhashed => fs[PlainPath(k)] # trace[k].digest

\* C18 happens: a candidate was renamed because a file that was indexed, with
\* other bytes, has its name
C18_Witness ==
  \E k \in Renames :
    /\ PlainPath(k) \in DOMAIN fs0 /\ PlainPath(k) \notin unhashed
    /\ fs0[PlainPath(k)] # trace[k].digest


\* what C19 says of a step that processes a candidate, e being its history record
FrameOf(e) ==
  /\ e.outcome \in {"SKIP_DUPLICATE", "ERROR_HASH", "ERROR_COPY"} =>
       (existing_hash_to_path' = existing_hash_to_path /\ fs' = fs)
  /\ e.outcome \in {"COPY", "COPY_RENAMED"} =>
       /\ e.digest \notin DOMAIN existing_hash_to_path
       /\ existing_hash_to_path' = existing_hash_to_path @@ (e.digest :> e.dest)
       /\ e.dest \notin DOMAIN fs
       /\ fs' = fs @@ (e.dest :> e.digest)

\* C19: the index changes only on a successful copy - processing a candidate
\* that ends in SKIP_DUPLICATE, ERROR_HASH or ERROR_COPY leaves the index and
\* the files of the destination as they were, and processing one that ends in
\* COPY or COPY_RENAMED adds the one entry {digest: destination path} and the
\* one file at that path.
C19_IndexChangesOnlyOnCopy ==
  [][Len(trace') = Len(trace) + 1 => FrameOf(trace'[Len(trace')])]_vars


\* the first file of the list files, left to right, that was hashed (is not in
\* bad) and has digest h
FirstMet(files, bad, h) ==
  files[CHOOSE n \in 1..Len(files) :
          /\ files[n] \notin bad /\ fs[files[n]] = h
          /\ \A m \in 1..(n - 1) : files[m] \in bad \/ fs[files[m]] # h]

\* C20: first-wins index - the index holds one path per digest; a digest once
\* mapped to a path, by the initial walk or after a copy, keeps that path for
\* the rest of the run; and of the pre-existing destination files that share a
\* digest the index built by the walk holds the one the walk met first.
C20_FirstWinsIndex ==
  [][/\ \A h \in DOMAIN existing_hash_to_path :
          h \in DOMAIN existing_hash_to_path'
            /\ existing_hash_to_path'[h] = existing_hash_to_path[h]
     /\ (pc = "index" /\ pc' = "process") =>
          /\ DOMAIN existing_hash_to_path' =
               {fs[existing_files[n]] :
                  n \in {m \in 1..Len(existing_files) : existing_files[m] \notin unhashed'}}
          /\ \A h \in DOMAIN existing_hash_to_path' :
               existing_hash_to_path'[h] = FirstMet(existing_files, unhashed', h)]_vars

\* C20 happens: two destination files that were hashed share a digest, and the
\* index holds the one in the subdirectory
C20_Witness ==
  /\ pc = "process"
  /\ \E h \in DOMAIN existing_hash_to_path :
       /\ existing_hash_to_path[h] = P("out/t", NameA)
       /\ P("out", NameA) \in DOMAIN fs0 /\ P("out", NameA) \notin unhashed
       /\ fs0[P("out", NameA)] = h

\* C20 happens, too: from the same two files the index holds the other one
C20_WitnessOther ==
  /\ pc = "process"
  /\ \E h \in DOMAIN existing_hash_to_path :
       /\ existing_hash_to_path[h] = P("out", NameA)
       /\ P("out/t", NameA) \in DOMAIN fs0 /\ P("out/t", NameA) \notin unhashed
       /\ fs0[P("out/t", NameA)] = h


\* a source candidate has been hashed, planned or copied, or a record written
ProcessingBegun == trace # <<>> \/ log # <<>> \/ fs # fs0 \/ i # 1

\* C21: indexing precedes processing - no source candidate is hashed, planned
\* or copied and no audit record is written until index_existing has returned,
\* its walk of the destination root finished and every allow-listed destination
\* file that could be hashed in the index.
C21_IndexingPrecedesProcessing ==
  ProcessingBegun =>
    /\ pc \in {"process", "done", "crashed"}
    /\ existing_files = <<>>
    /\ \A q \in DOMAIN fs0 :
         (UnderOut(q) /\ _is_allowed_font(q) /\ q \notin unhashed) =>
           fs0[q] \in DOMAIN existing_hash_to_path

\* C21 happens: the first candidate has been processed, with a destination that
\* held a font that was indexed and one that failed to hash
C21_Witness ==
  /\ Len(trace) = 1
  /\ unhashed # {}
  /\ \E q \in DOMAIN fs0 : UnderOut(q) /\ _is_allowed_font(q) /\ q \notin unhashed


\* the candidates of the list are taken in order, none twice: the history holds
\* one entry for each of the first candidates of the list
TakenOnceInOrder ==
  /\ Len(trace) <= Len(in_files)
  /\ \A k \in 1..Len(trace) : trace[k].input = in_files[k]
  /\ pc = "process" => i = Len(trace) + 1

\* C22: each candidate goes through the pipeline exactly once and ends in
\* exactly one of the five outcomes - the candidates are taken in the order of
\* the list, none is taken a second time, each one taken ends in COPY,
\* COPY_RENAMED, SKIP_DUPLICATE, ERROR_HASH or ERROR_COPY, and when the run is
\* over every candidate of the list has been taken.
C22_ExactlyOnceOneOutcome ==
  pc \in {"process", "done", "crashed"} =>
    /\ TakenOnceInOrder
    /\ \A k \in 1..Len(trace) : trace[k].outcome \in Outcomes
    /\ pc \in {"done", "crashed"} => Len(trace) = Len(in_files)


\* the candidates the planner was called for
Planned == {k \in 1..Len(trace) : trace[k].hashed}

\* C23: the planner's decision table - SKIP_DUPLICATE with no path and flags
\* (name_conflict = false, content_duplicate = true) iff the digest is a key of
\* the index; otherwise COPY to {stem}{ext} with flags (false, false) iff that
\* name does not exist in the target directory; otherwise COPY_RENAMED with
\* flags (true, false); a digest in the index decides whatever the name.
C23_DecisionTable ==
  \A k \in Planned :
    LET e == trace[k]
        name == PathStem(e.input.name) \o PathSuffix(e.input.name)
    IN /\ e.plan \in {"SKIP_DUPLICATE", "COPY", "COPY_RENAMED"}
       /\ e.plan = "SKIP_DUPLICATE" <=> e.inIndex
       /\ e.plan = "SKIP_DUPLICATE" => (e.dest = NoPath /\ e.flags = <<FALSE, TRUE>>)
       /\ e.plan = "COPY" <=> (~e.inIndex /\ name \notin e.taken)
       /\ e.plan = "COPY" =>
            (e.dest = P(out_target_dir, name) /\ e.flags = <<FALSE, FALSE>>)
       /\ e.plan = "COPY_RENAMED" <=> (~e.inIndex /\ name \in e.taken)
       /\ e.plan = "COPY_RENAMED" =>
            (e.dest.dir = out_target_dir /\ e.dest.name # name
               /\ e.flags = <<TRUE, FALSE>>)

\* C23 happens: the planner answered SKIP_DUPLICATE for a digest in the index
\* although the candidate's name was taken in the target directory
C23_Witness ==
  \E k \in Planned :
    /\ trace[k].plan = "SKIP_DUPLICATE"
    /\ (PathStem(trace[k].input.name) \o PathSuffix(trace[k].input.name)) \in trace[k].taken

\* C23 happens, too: a renamed copy followed by a plain one
C23_WitnessBoth ==
  /\ \E k \in Planned : trace[k].plan = "COPY_RENAMED"
  /\ \E k \in Planned : trace[k].plan = "COPY"


\* the files now in the target directory that were not there before the run
NewInTarget == {q \in Files \ DOMAIN fs0 : q.dir = out_target_dir}

\* C24: the destination grows by exactly the counted copies - at the end of a
\* run the files in the target directory that were not there before number
\* copied + renamed: a candidate recorded ERROR_COPY has left no file, and no
\* file that was written is recorded as an error.
C24_GrowthEqualsCounted ==
  pc = "done" =>
    /\ Cardinality(NewInTarget) = copied + renamed
    /\ \A k \in Records("ERROR_COPY") : ~trace[k].wrote


\* C25: saving previews never overwrites a file - every path _next_output_path
\* returned was the path of no file in the output directory when it was
\* returned, no write replaced a file, and over every interleaving of
\* save-current presses and save-all workers the paths written are pairwise
\* distinct; each file saved, and each file that was there before, still holds
\* its text.
C25_SavesNeverOverwrite ==
  /\ \A k \in 1..Len(saves) : ~saves[k].existed /\ ~saves[k].overwrote
  /\ \A j \in 1..Len(saves), k \in 1..Len(saves) : j # k => saves[j].path # saves[k].path
  /\ \A k \in 1..Len(saves) :
       saves[k].path \in DOMAIN asc /\ asc[saves[k].path] = saves[k].text
  /\ Cardinality({n \in DOMAIN asc : asc[n] = OldText}) + Len(saves) = Cardinality(DOMAIN asc)

\* C25 happens: two save-all workers are both between two of their fonts, a
\* save-current has been written as well, and some save had to pass over a
\* name that was taken
C25_Witness ==
  /\ \A w \in 1..MaxWorkers : workers[w].status = "await" /\ workers[w].saved >= 1
  /\ \E k \in 1..Len(saves) : saves[k].by = 0
  /\ \E k \in 1..Len(saves) : saves[k].by # 0 /\ Contains(saves[k].path, <<"_", "0", "2", ".">>)

====
